---------------------------- MODULE Spec2Model ----------------------------
(***************************************************************************)
(* github-typescript-utils: the list-returning helpers (paginated          *)
(* collectors and single-page listings), the sticky-comment helpers, the   *)
(* label removal, the deployment deletion, the branch lookups and the      *)
(* label conflict check, as state machines over a REST provider.           *)
(*                                                                         *)
(* A call is one async function of the library.  JavaScript runs a         *)
(* function to its next `await` without interruption, so every action is   *)
(* one such run: the start of a call up to its first request, or the       *)
(* resumption with a response up to the next request or the return.        *)
(*                                                                         *)
(* Strings whose content matters (comment bodies, identifiers) are         *)
(* sequences of tokens; label and login names are atoms compared with =.   *)
(***************************************************************************)
EXTENDS Integers, Sequences, FiniteSets, TLC

VARIABLES
  pulls,        \* provider: the repository's pull requests, in listing order
  branches,     \* provider: the repository's branches, in listing order
  deployments,  \* provider: the repository's deployments, in listing order
  comments,     \* provider: the issue's comments, in listing order
  stub,         \* TRUE: the provider is a test double that ignores page / per_page
  fn,           \* the library function being called ("none" before the call)
  args,         \* its arguments (a record)
  pc,           \* "idle" | "await" | "done" | "rejected"
  page,         \* local `page`
  perPage,      \* local `perPage`
  acc,          \* the local accumulator (branches / deployments / pullRequests)
  requests,     \* every request issued to the provider by this call, in order
  responses,    \* every response received by this call, in order
  result,       \* the value the call resolved with (meaningful when pc = "done")
  error,        \* the error the call rejected with (meaningful when pc = "rejected")
  logs,         \* ctx.core.info entries of this call
  history,      \* the calls started so far in a session of sequential calls
  caller,       \* the library function awaiting the running one (NoCaller when none)
  parked        \* the frame of the process's other call, suspended or settled

provider == <<pulls, branches, deployments, comments, stub>>
vars == <<pulls, branches, deployments, comments, stub,
          fn, args, pc, page, perPage, acc, requests, responses, result, error, logs,
          history, caller, parked>>

-----------------------------------------------------------------------------
(* Bounds of the model *)

MaxLimit == 2       \* small limits are 0..MaxLimit
MaxPRs == 4         \* pull requests held by the provider
MaxComments == 2    \* comments held by the provider in the listing scenarios
MaxPage == 4        \* page requests per call (a test double can answer full pages for ever)
MaxCalls == 2       \* sequential calls of a session
MaxText == 4        \* characters of a text handed to truncateText

-----------------------------------------------------------------------------
(* JavaScript helpers *)

Min(a, b) == IF a < b THEN a ELSE b
Max(a, b) == IF a > b THEN a ELSE b

Undefined == "undefined"

\* Array.prototype.slice(0, n)
SliceFromStart(s, n) ==
  IF n >= 0 THEN SubSeq(s, 1, Min(n, Len(s)))
            ELSE SubSeq(s, 1, Max(Len(s) + n, 0))

\* Array.prototype.includes
ArrayIncludes(s, x) == \E i \in 1..Len(s) : s[i] = x

\* faulty variant: `some` in the place of `every`
SomeLabelIncluded(required, have) ==
  \E i \in 1..Len(required) : ArrayIncludes(have, required[i])

\* Array.prototype.every with the label test of the filters
EveryLabelIncluded(required, have) ==
  \A i \in 1..Len(required) : ArrayIncludes(have, required[i])

-----------------------------------------------------------------------------
(* The provider *)

\* The real API: page p (1-based) of size pp of a listing.
PageOf(store, p, pp) == SubSeq(store, (p - 1) * pp + 1, Min(p * pp, Len(store)))

\* A test double (vi.fn().mockResolvedValue) answers the same data whatever is asked.
ProviderData(store, p, pp) == IF stub THEN store ELSE PageOf(store, p, pp)

RequestErrors == {[status |-> 404], [status |-> 500]}
NoError == [none |-> TRUE]

\* no function awaits the running one
NoCaller == [none |-> TRUE]

\* a frame before its call
IdleFrame ==
  [fn |-> "none", args |-> [none |-> TRUE], pc |-> "idle", page |-> 1, perPage |-> 0,
   acc |-> <<>>, requests |-> <<>>, responses |-> <<>>, result |-> <<>>,
   error |-> NoError, logs |-> <<>>]

-----------------------------------------------------------------------------
(* Steps shared by the collectors: the text of these steps is repeated in   *)
(* each function of the source; the per-function parts are parameters.      *)

\* faulty variant: the whole accumulator is returned, not cut to the limit
ReturnUncut(xs, limit) ==
  /\ pc' = "done"
  /\ result' = xs

\* `return xs.slice(0, limit)`
Return(xs, limit) ==
  /\ pc' = "done"
  /\ result' = SliceFromStart(xs, limit)

\* issue the request `req` and suspend at the await
Await(req) ==
  /\ pc' = "await"
  /\ requests' = Append(requests, req)

\* faulty variant: the failure is swallowed and what was accumulated is returned
ReturnPartial(e) ==
  /\ pc' = "done"
  /\ result' = acc
  /\ error' = e
  /\ UNCHANGED <<acc, page, requests, logs>>

\* a rejected await is not caught: the call rejects with the provider's error
Propagate(e) ==
  /\ pc' = "rejected"
  /\ error' = e
  /\ UNCHANGED <<result, acc, page, requests, logs>>

\* faulty variant: the items of a page are dropped
PushNothing(xs, items) == xs

\* faulty variant: the items of a page are put in front of the accumulator
PushFront(xs, items) == items \o xs

\* `acc.push(...items)`
Push(xs, items) == xs \o items

\* One round of the `while (acc.length < limit)` loop, from the response `data`
\* of the awaited request: `kept` is what the round pushes, `brk` the condition
\* of the `break` that follows the push, `api` the endpoint of the next request.
Collect(data, kept, brk, api) ==
  /\ responses' = Append(responses, [ok |-> TRUE, data |-> data])
  /\ IF Len(data) = 0
       THEN /\ Return(acc, args.limit)
            /\ UNCHANGED <<acc, page, requests>>
       ELSE /\ acc' = Push(acc, kept)
            /\ IF brk
                 THEN /\ Return(Push(acc, kept), args.limit)
                      /\ UNCHANGED <<page, requests>>
                 ELSE /\ page' = page + 1
                      /\ IF Len(Push(acc, kept)) < args.limit
                           THEN /\ page < MaxPage
                                /\ Await([api |-> api, per_page |-> perPage, page |-> page + 1])
                                /\ UNCHANGED result
                           ELSE /\ Return(Push(acc, kept), args.limit)
                                /\ UNCHANGED requests

\* faulty variant: the page counter is declared outside the function and goes
\* on from where the other call left it
StartFromLastPage(name, a, pp, api) ==
  /\ fn' = name
  /\ args' = a
  /\ page' = parked.page
  /\ perPage' = pp
  /\ acc' = <<>>
  /\ IF 0 < a.limit
       THEN /\ Await([api |-> api, per_page |-> pp, page |-> parked.page])
            /\ UNCHANGED result
       ELSE /\ Return(<<>>, a.limit)
            /\ UNCHANGED requests

\* The start of a paginated call: locals, then the first test of the loop.
Start(name, a, pp, api) ==
  /\ fn' = name
  /\ args' = a
  /\ page' = 1
  /\ perPage' = pp
  /\ acc' = <<>>
  /\ IF 0 < a.limit
       THEN /\ Await([api |-> api, per_page |-> pp, page |-> 1])
            /\ UNCHANGED result
       ELSE /\ Return(<<>>, a.limit)
            /\ UNCHANGED requests

LastRequest == requests[Len(requests)]

-----------------------------------------------------------------------------
(* listAllBranches *)

SmallLimits == 0..MaxLimit
LargeLimits == {100, 101, 250}

\* faulty variant: the provider's maximum page size is not applied
BranchesPerPageUncapped(limit) == limit

BranchesPerPage(limit) == Min(limit, 100)

BranchName(branch) == branch.name

\* faulty variant: a short page does not end the loop
BranchesNeverLastPage(data, pp) == FALSE

BranchesLastPage(data, pp) == Len(data) < pp

ListAllBranches ==
  /\ pc = "idle"
  /\ \E limit \in SmallLimits \cup LargeLimits :
       Start("listAllBranches", [limit |-> limit], BranchesPerPage(limit),
             "repos.listBranches")
  /\ UNCHANGED <<provider, history, caller, parked, responses, error, logs>>

ListAllBranchesResume ==
  /\ pc = "await"
  /\ fn = "listAllBranches"
  /\ LET data == ProviderData(branches, LastRequest.page, LastRequest.per_page)
         names == [i \in 1..Len(data) |-> BranchName(data[i])]
     IN  Collect(data, names, BranchesLastPage(data, perPage), "repos.listBranches")
  /\ UNCHANGED <<provider, history, caller, parked, fn, args, perPage, error, logs>>

-----------------------------------------------------------------------------
(* listDeployments *)

\* faulty variant: the provider's maximum page size is not applied
DeploymentsPerPageUncapped(limit) == limit

DeploymentsPerPage(limit) == Min(limit, 100)

DeploymentsLastPage(data, pp) == Len(data) < pp

ListDeployments ==
  /\ pc = "idle"
  /\ \E limit \in SmallLimits \cup LargeLimits :
       Start("listDeployments", [limit |-> limit], DeploymentsPerPage(limit),
             "repos.listDeployments")
  /\ UNCHANGED <<provider, history, caller, parked, responses, error, logs>>

ListDeploymentsResume ==
  /\ pc = "await"
  /\ fn = "listDeployments"
  /\ LET data == ProviderData(deployments, LastRequest.page, LastRequest.per_page)
     IN  Collect(data, data, DeploymentsLastPage(data, perPage),
                 "repos.listDeployments")
  /\ UNCHANGED <<provider, history, caller, parked, fn, args, perPage, error, logs>>

-----------------------------------------------------------------------------
(* Pull requests *)

Null == [null |-> TRUE]

\* pr.labels.map((label) => label.name)
LabelNameOf(label) == label.name
PrLabels(pr) == [i \in 1..Len(pr.labels) |-> LabelNameOf(pr.labels[i])]

\* pr.user?.login
UserLogin(pr) == IF pr.user = Null THEN Undefined ELSE pr.user.login

\* truthiness of an optional string
Truthy(s) == s # Undefined /\ s # ""

NoLabelsError == [message |-> "At least one label must be specified"]

SearchingLog(labels) == [msg |-> "Searching for PRs with labels", labels |-> labels]
FoundLog(n) == [msg |-> "Found PRs matching label criteria", count |-> n]

LabelSets == {<<>>, <<"A">>, <<"A", "B">>}
ExcludeSets == {<<>>, <<1>>}
Authors == {Undefined, "alice"}

-----------------------------------------------------------------------------
(* findPRsWithLabels *)

LabelsPerPage(limit) == Min(limit * 2, 100)

\* `if (labels.length === 0) throw`
LabelsMissing(labels) == Len(labels) = 0

\* the filter callback
LabelsKeep(pr, a) ==
  IF ArrayIncludes(a.excludePRs, pr.number)
    THEN FALSE
    ELSE EveryLabelIncluded(a.labels, PrLabels(pr))

LabelsMatching(data, a) == SelectSeq(data, LAMBDA pr : LabelsKeep(pr, a))

\* faulty variant: the end-of-data test reads the filtered count
LabelsBreakOnFiltered(data, pp, n, limit) == n < pp \/ n >= limit

LabelsBreak(data, pp, n, limit) == Len(data) < pp \/ n >= limit

FindPRsWithLabels ==
  /\ pc = "idle"
  /\ \E labels \in LabelSets, excludePRs \in ExcludeSets,
        limit \in SmallLimits \cup LargeLimits :
       LET a == [labels |-> labels, excludePRs |-> excludePRs, limit |-> limit]
       IN  IF LabelsMissing(labels)
             THEN /\ fn' = "findPRsWithLabels"
                  /\ args' = a
                  /\ pc' = "rejected"
                  /\ error' = NoLabelsError
                  /\ UNCHANGED <<page, perPage, acc, requests, result, logs>>
             ELSE /\ Start("findPRsWithLabels", a, LabelsPerPage(limit), "pulls.list")
                  /\ logs' = IF pc' = "done"
                               THEN <<SearchingLog(labels), FoundLog(0)>>
                               ELSE <<SearchingLog(labels)>>
                  /\ UNCHANGED error
  /\ UNCHANGED <<provider, history, caller, parked, responses>>

FindPRsWithLabelsResume ==
  /\ pc = "await"
  /\ fn = "findPRsWithLabels"
  /\ LET data == ProviderData(pulls, LastRequest.page, LastRequest.per_page)
         matchingPRs == LabelsMatching(data, args)
     IN  Collect(data, matchingPRs,
                 LabelsBreak(data, perPage, Len(Push(acc, matchingPRs)), args.limit),
                 "pulls.list")
  /\ logs' = IF pc' = "done" THEN Append(logs, FoundLog(Len(acc'))) ELSE logs
  /\ UNCHANGED <<provider, history, caller, parked, fn, args, perPage, error>>

-----------------------------------------------------------------------------
(* searchPullRequests *)

SearchPerPage(limit) == Min(limit * 2, 100)

\* the filter callback
SearchKeep(pr, a) ==
  IF ArrayIncludes(a.excludePRs, pr.number)
    THEN FALSE
  ELSE IF Truthy(a.author) /\ UserLogin(pr) # a.author
    THEN FALSE
  ELSE IF Len(a.labels) > 0 /\ ~EveryLabelIncluded(a.labels, PrLabels(pr))
    THEN FALSE
  ELSE TRUE

SearchMatching(data, a) == SelectSeq(data, LAMBDA pr : SearchKeep(pr, a))

\* faulty variant: a full page already ends the loop
SearchBreakOnFullPage(data, pp, n, limit) == Len(data) <= pp \/ n >= limit

SearchBreak(data, pp, n, limit) == Len(data) < pp \/ n >= limit

SearchPullRequests ==
  /\ pc = "idle"
  /\ \E labels \in LabelSets, excludePRs \in ExcludeSets, author \in Authors,
        limit \in SmallLimits \cup LargeLimits :
       Start("searchPullRequests",
             [labels |-> labels, excludePRs |-> excludePRs, author |-> author,
              limit |-> limit],
             SearchPerPage(limit), "pulls.list")
  /\ UNCHANGED <<provider, history, caller, parked, responses, error, logs>>

SearchPullRequestsResume ==
  /\ pc = "await"
  /\ fn = "searchPullRequests"
  /\ LET data == ProviderData(pulls, LastRequest.page, LastRequest.per_page)
         filteredPRs == SearchMatching(data, args)
     IN  Collect(data, filteredPRs,
                 SearchBreak(data, perPage, Len(Push(acc, filteredPRs)), args.limit),
                 "pulls.list")
  /\ UNCHANGED <<provider, history, caller, parked, fn, args, perPage, error, logs>>

-----------------------------------------------------------------------------
(* findPullRequestsByLabels: one request, no page parameter *)

ByLabelsPerPage(limit) == Min(limit * 2, 100)

\* faulty variant: the validation is missing
ByLabelsNeverMissing(labels) == FALSE

\* `if (labels.length === 0) throw`
ByLabelsMissing(labels) == Len(labels) = 0

ByLabelsKeep(pr, a) == EveryLabelIncluded(a.labels, PrLabels(pr))

ByLabelsMatching(data, a) == SelectSeq(data, LAMBDA pr : ByLabelsKeep(pr, a))

FindPullRequestsByLabels ==
  /\ pc = "idle"
  /\ \E labels \in LabelSets, limit \in SmallLimits :
       /\ fn' = "findPullRequestsByLabels"
       /\ args' = [labels |-> labels, excludePRs |-> <<>>, limit |-> limit]
       /\ IF ByLabelsMissing(labels)
            THEN /\ pc' = "rejected"
                 /\ error' = NoLabelsError
                 /\ UNCHANGED <<requests, logs>>
            ELSE /\ logs' = <<SearchingLog(labels)>>
                 /\ Await([api |-> "pulls.list", per_page |-> ByLabelsPerPage(limit)])
                 /\ UNCHANGED error
  /\ UNCHANGED <<provider, history, caller, parked, page, perPage, acc, responses, result>>

FindPullRequestsByLabelsResume ==
  /\ pc = "await"
  /\ fn = "findPullRequestsByLabels"
  /\ LET pullRequests == ProviderData(pulls, 1, LastRequest.per_page)
         matchingPRs == ByLabelsMatching(pullRequests, args)
     IN  /\ responses' = Append(responses, [ok |-> TRUE, data |-> pullRequests])
         /\ logs' = Append(logs, FoundLog(Len(matchingPRs)))
         /\ Return(matchingPRs, args.limit)
  /\ UNCHANGED <<provider, history, caller, parked, fn, args, page, perPage, acc, requests, error>>

-----------------------------------------------------------------------------
(* searchComments: one request, no page parameter *)

\* String.prototype.toLowerCase over the tokens of the model's alphabet
LowerToken(t) == IF t = "F" THEN "f" ELSE IF t = "I" THEN "i" ELSE t
ToLowerCase(str) == [i \in 1..Len(str) |-> LowerToken(str[i])]

\* String.prototype.includes
StringIncludes(str, needle) ==
  \E i \in 1..(Len(str) - Len(needle) + 1) :
     SubSeq(str, i, i + Len(needle) - 1) = needle

\* faulty variant: twice the limit is asked for, as the pull request searches do
CommentsPerPageDoubled(limit) == Min(limit * 2, 100)

CommentsPerPage(limit) == Min(limit, 100)

BodyFilter(cs, bodyContains) ==
  SelectSeq(cs, LAMBDA c : StringIncludes(ToLowerCase(c.body), ToLowerCase(bodyContains)))

AuthorFilter(cs, author) == SelectSeq(cs, LAMBDA c : UserLogin(c) = author)

\* faulty variant: a comment created at createdAfter itself is kept
AfterFilterInclusive(cs, createdAfter) ==
  SelectSeq(cs, LAMBDA c : c.created_at >= createdAfter)

AfterFilter(cs, createdAfter) == SelectSeq(cs, LAMBDA c : c.created_at > createdAfter)

BeforeFilter(cs, createdBefore) == SelectSeq(cs, LAMBDA c : c.created_at < createdBefore)

\* the chain of optional filters
FilteredComments(allComments, a) ==
  LET f1 == IF a.hasBody THEN BodyFilter(allComments, a.bodyContains) ELSE allComments
      f2 == IF Truthy(a.author) THEN AuthorFilter(f1, a.author) ELSE f1
      f3 == IF a.hasAfter THEN AfterFilter(f2, a.createdAfter) ELSE f2
      f4 == IF a.hasBefore THEN BeforeFilter(f3, a.createdBefore) ELSE f3
  IN  f4

\* the options of the calls: has* says whether the optional field is supplied
CommentOptions ==
  [limit : SmallLimits \cup {250},
   hasBody : BOOLEAN, bodyContains : {<<"F", "I">>},
   author : Authors,
   hasAfter : BOOLEAN, createdAfter : {1},
   hasBefore : BOOLEAN, createdBefore : {2}]

SearchComments ==
  /\ pc = "idle"
  /\ \E a \in CommentOptions :
       /\ fn' = "searchComments"
       /\ args' = a
       /\ Await([api |-> "issues.listComments", per_page |-> CommentsPerPage(a.limit)])
  /\ UNCHANGED <<provider, history, caller, parked, page, perPage, acc, responses, result, error, logs>>

SearchCommentsResume ==
  /\ pc = "await"
  /\ fn = "searchComments"
  /\ LET allComments == ProviderData(comments, 1, LastRequest.per_page)
     IN  /\ responses' = Append(responses, [ok |-> TRUE, data |-> allComments])
         /\ Return(FilteredComments(allComments, args), args.limit)
  /\ UNCHANGED <<provider, history, caller, parked, fn, args, page, perPage, acc, requests, error, logs>>

-----------------------------------------------------------------------------
(* createStickyComment and findCommentByIdentifier *)

Identifiers == {<<"a">>, <<"a", "b">>}
Bodies == {<<"x">>, <<"y">>}

\* `<!-- sticky-comment-id: ${identifier} -->`
IdentifierMarker(identifier) ==
  <<"<!-- sticky-comment-id: ">> \o identifier \o <<" -->">>

\* faulty variant: the marker line is left out
BodyWithoutMarker(identifier, body) == body

\* `${identifierMarker}\n${body}`
FullBody(identifier, body) == IdentifierMarker(identifier) \o <<"\n">> \o body

\* comments.find((comment) => comment.body?.includes(identifierMarker)): the
\* position of the first such comment, 0 when there is none
FindByMarker(cs, marker) ==
  IF \E i \in 1..Len(cs) : StringIncludes(cs[i].body, marker)
    THEN CHOOSE i \in 1..Len(cs) :
           /\ StringIncludes(cs[i].body, marker)
           /\ \A j \in 1..(i - 1) : ~StringIncludes(cs[j].body, marker)
    ELSE 0

\* the listComments request of findCommentByIdentifier
ListCommentsRequest == [api |-> "issues.listComments", per_page |-> 100]

CreateCommentRequest(identifier, body) ==
  [api |-> "issues.createComment", body |-> FullBody(identifier, body)]

UpdateCommentRequest(id, identifier, body) ==
  [api |-> "issues.updateComment", comment_id |-> id,
   body |-> FullBody(identifier, body)]

UpdatingLog(identifier, id) ==
  [msg |-> "Updating existing sticky comment", identifier |-> identifier, id |-> id]
CreatingLog(identifier) ==
  [msg |-> "Creating new sticky comment with identifier", identifier |-> identifier]

\* the provider's side of issues.createComment: the new comment comes last
\* (ids and creation times grow: the new ones are above all those listed)
NewComment(cs, body) ==
  LET last == IF cs = <<>> THEN 0 ELSE cs[Len(cs)].id
  IN  [id |-> last + 1, body |-> body, user |-> [login |-> "github-actions"],
       created_at |-> last + 1]

\* faulty variant: the body is written to every comment of the issue
WithBodyEverywhere(cs, id, body) ==
  [i \in DOMAIN cs |-> [cs[i] EXCEPT !.body = body]]

\* the provider's side of issues.updateComment
WithBody(cs, id, body) ==
  [i \in DOMAIN cs |-> IF cs[i].id = id THEN [cs[i] EXCEPT !.body = body] ELSE cs[i]]

\* a call starts when the previous call of the session has settled
CreateStickyComment ==
  /\ pc \in {"idle", "done", "rejected"}
  /\ Len(history) < MaxCalls
  /\ \E identifier \in Identifiers, body \in Bodies, updateIfExists \in BOOLEAN :
       LET a == [identifier |-> identifier, body |-> body,
                 updateIfExists |-> updateIfExists]
       IN  /\ fn' = "createStickyComment"
           /\ args' = a
           /\ history' = Append(history, [fn |-> "createStickyComment", args |-> a])
           /\ pc' = "await"
           /\ IF updateIfExists
                THEN /\ requests' = <<ListCommentsRequest>>
                     /\ logs' = <<>>
                ELSE /\ requests' = <<CreateCommentRequest(identifier, body)>>
                     /\ logs' = <<CreatingLog(identifier)>>
  /\ responses' = <<>>
  /\ result' = <<>>
  /\ error' = NoError
  /\ UNCHANGED <<provider, page, perPage, acc, caller, parked>>

\* resumption with the comments listed by findCommentByIdentifier
CreateStickyCommentFind ==
  /\ pc = "await"
  /\ fn = "createStickyComment"
  /\ LastRequest.api = "issues.listComments"
  /\ LET listed == ProviderData(comments, 1, LastRequest.per_page)
         found == FindByMarker(listed, IdentifierMarker(args.identifier))
     IN  /\ responses' = Append(responses, [ok |-> TRUE, data |-> listed])
         /\ IF found # 0
              THEN /\ logs' = Append(logs, UpdatingLog(args.identifier, listed[found].id))
                   /\ Await(UpdateCommentRequest(listed[found].id, args.identifier,
                                                 args.body))
              ELSE /\ logs' = Append(logs, CreatingLog(args.identifier))
                   /\ Await(CreateCommentRequest(args.identifier, args.body))
  /\ UNCHANGED <<provider, history, caller, parked, fn, args, page, perPage, acc, result, error>>

\* resumption with the updated comment
CreateStickyCommentUpdated ==
  /\ pc = "await"
  /\ fn = "createStickyComment"
  /\ LastRequest.api = "issues.updateComment"
  /\ \E i \in 1..Len(comments) : comments[i].id = LastRequest.comment_id
  /\ comments' = WithBody(comments, LastRequest.comment_id, LastRequest.body)
  /\ LET i == CHOOSE i \in 1..Len(comments) : comments[i].id = LastRequest.comment_id
     IN  /\ responses' = Append(responses, [ok |-> TRUE, data |-> comments'[i]])
         /\ result' = comments'[i]
  /\ pc' = "done"
  /\ UNCHANGED <<pulls, branches, deployments, stub, history, caller, parked, fn, args, page, perPage,
                 acc, requests, error, logs>>

\* resumption with the created comment
CreateStickyCommentCreated ==
  /\ pc = "await"
  /\ fn = "createStickyComment"
  /\ LastRequest.api = "issues.createComment"
  /\ LET newComment == NewComment(comments, LastRequest.body)
     IN  /\ comments' = Append(comments, newComment)
         /\ responses' = Append(responses, [ok |-> TRUE, data |-> newComment])
         /\ result' = newComment
  /\ pc' = "done"
  /\ UNCHANGED <<pulls, branches, deployments, stub, history, caller, parked, fn, args, page, perPage,
                 acc, requests, error, logs>>

-----------------------------------------------------------------------------
(* removeLabelsFromPullRequest: one removeLabel request per label *)

RemoveSets == {<<>>, <<"A">>, <<"A", "B">>, <<"C", "A", "B">>}
PullNumbers == {1, 2}

NoLabelsToRemoveLog == [msg |-> "No labels to remove"]
RemovingLog(pullNumber, labels) ==
  [msg |-> "Removing labels from PR", pullNumber |-> pullNumber, labels |-> labels]
NotPresentLog(label, pullNumber) ==
  [msg |-> "Label was not present on PR", label |-> label, pullNumber |-> pullNumber]

RemoveLabelRequest(pullNumber, label) ==
  [api |-> "issues.removeLabel", issue_number |-> pullNumber, name |-> label]

\* faulty variant: no failure is taken for an absent label
LabelNeverAbsent(e) == FALSE

\* faulty variant: every failure that carries a status is taken for an absent label
LabelAbsentOnAnyStatus(e) == "status" \in DOMAIN e

\* `error?.status === 404`
LabelAbsent(e) == "status" \in DOMAIN e /\ e.status = 404

\* faulty variant: the absent label is passed over without a word
LogNothing(ls, label, pullNumber) == ls

\* ctx.core.info(`Label '${label}' was not present on PR #${pullNumber}`)
LogAbsent(ls, label, pullNumber) == Append(ls, NotPresentLog(label, pullNumber))

\* the provider's side of issues.removeLabel
HasLabel(ps, number, name) ==
  \E i \in 1..Len(ps) : ps[i].number = number /\ ArrayIncludes(PrLabels(ps[i]), name)

WithoutLabel(ps, number, name) ==
  [i \in DOMAIN ps |->
     IF ps[i].number = number
       THEN [ps[i] EXCEPT !.labels = SelectSeq(@, LAMBDA l : LabelNameOf(l) # name)]
       ELSE ps[i]]

\* the next turn of `for (const label of labels)`: one request was issued per
\* label taken so far
NextLabel ==
  IF Len(requests) < Len(args.labels)
    THEN /\ Await(RemoveLabelRequest(args.pullNumber, args.labels[Len(requests) + 1]))
         /\ UNCHANGED result
    ELSE /\ pc' = "done"
         /\ result' = Undefined
         /\ UNCHANGED requests

RemoveLabelsFromPullRequest ==
  /\ pc = "idle"
  /\ \E pullNumber \in PullNumbers, labels \in RemoveSets :
       /\ fn' = "removeLabelsFromPullRequest"
       /\ args' = [pullNumber |-> pullNumber, labels |-> labels]
       /\ IF Len(labels) = 0
            THEN /\ logs' = <<NoLabelsToRemoveLog>>
                 /\ pc' = "done"
                 /\ result' = Undefined
                 /\ UNCHANGED requests
            ELSE /\ logs' = <<RemovingLog(pullNumber, labels)>>
                 /\ Await(RemoveLabelRequest(pullNumber, labels[1]))
                 /\ UNCHANGED result
  /\ UNCHANGED <<provider, history, caller, parked, page, perPage, acc, responses, error>>

\* the provider removed the label
RemoveLabelsRemoved ==
  /\ pc = "await"
  /\ fn = "removeLabelsFromPullRequest"
  /\ stub \/ HasLabel(pulls, LastRequest.issue_number, LastRequest.name)
  /\ pulls' = WithoutLabel(pulls, LastRequest.issue_number, LastRequest.name)
  /\ responses' = Append(responses, [ok |-> TRUE, data |-> <<>>])
  /\ NextLabel
  /\ UNCHANGED <<branches, deployments, comments, stub, history, caller, parked,
                 fn, args, page, perPage, acc, error, logs>>

\* the removal failed: the catch clause of the loop body
RemoveLabelsCaught ==
  /\ pc = "await"
  /\ fn = "removeLabelsFromPullRequest"
  /\ \E e \in RequestErrors :
       /\ stub \/ e.status # 404
               \/ ~HasLabel(pulls, LastRequest.issue_number, LastRequest.name)
       /\ responses' = Append(responses, [ok |-> FALSE, error |-> e])
       /\ IF LabelAbsent(e)
            THEN /\ logs' = LogAbsent(logs, LastRequest.name, args.pullNumber)
                 /\ NextLabel
                 /\ UNCHANGED error
            ELSE /\ pc' = "rejected"
                 /\ error' = e
                 /\ UNCHANGED <<requests, result, logs>>
  /\ UNCHANGED <<provider, history, caller, parked, fn, args, page, perPage, acc>>

-----------------------------------------------------------------------------
(* deleteDeployment: setDeploymentStatus('inactive'), then the deletion *)

DeploymentIds == {1, 2}

DeleteDeploymentRequest(deploymentId) ==
  [api |-> "repos.deleteDeployment", deployment_id |-> deploymentId]

\* faulty variant: the deletion is asked for at once
DeleteAtOnce(deploymentId) == DeleteDeploymentRequest(deploymentId)

\* the request of setDeploymentStatus({ state: 'inactive' })
InactiveStatusRequest(deploymentId) ==
  [api |-> "repos.createDeploymentStatus", deployment_id |-> deploymentId,
   state |-> "inactive"]

\* the provider's side of the two requests
DeploymentExists(ds, id) == \E i \in 1..Len(ds) : ds[i].id = id

WithStatus(ds, id, state) ==
  [i \in DOMAIN ds |-> IF ds[i].id = id THEN [id |-> id, state |-> state] ELSE ds[i]]

WithoutDeployment(ds, id) == SelectSeq(ds, LAMBDA d : d.id # id)

DeleteDeployment ==
  /\ pc = "idle"
  /\ \E deploymentId \in DeploymentIds :
       /\ fn' = "deleteDeployment"
       /\ args' = [deploymentId |-> deploymentId]
       /\ Await(InactiveStatusRequest(deploymentId))
  /\ UNCHANGED <<provider, history, caller, parked, page, perPage, acc, responses,
                 result, error, logs>>

\* resumption with the created status
DeleteDeploymentInactive ==
  /\ pc = "await"
  /\ fn = "deleteDeployment"
  /\ LastRequest.api = "repos.createDeploymentStatus"
  /\ stub \/ DeploymentExists(deployments, LastRequest.deployment_id)
  /\ deployments' = WithStatus(deployments, LastRequest.deployment_id, LastRequest.state)
  /\ responses' = Append(responses, [ok |-> TRUE, data |-> [state |-> LastRequest.state]])
  /\ Await(DeleteDeploymentRequest(args.deploymentId))
  /\ UNCHANGED <<pulls, branches, comments, stub, history, caller, parked,
                 fn, args, page, perPage, acc, result, error, logs>>

\* resumption after the deletion
DeleteDeploymentDeleted ==
  /\ pc = "await"
  /\ fn = "deleteDeployment"
  /\ LastRequest.api = "repos.deleteDeployment"
  /\ stub \/ DeploymentExists(deployments, LastRequest.deployment_id)
  /\ deployments' = WithoutDeployment(deployments, LastRequest.deployment_id)
  /\ responses' = Append(responses, [ok |-> TRUE, data |-> <<>>])
  /\ pc' = "done"
  /\ result' = Undefined
  /\ UNCHANGED <<pulls, branches, comments, stub, history, caller, parked,
                 fn, args, page, perPage, acc, requests, error, logs>>

-----------------------------------------------------------------------------
(* checkBranchExists and getBranchProtection: one request in a try/catch *)

BranchNames == {1, 2}

\* failures of a request: with a status, or without one (a network failure)
LookupErrors == RequestErrors \cup {[status |-> 403], [message |-> "socket hang up"]}

Protections == {[required_status_checks |-> TRUE]}

GetBranchRequest(branch) == [api |-> "repos.getBranch", branch |-> branch]

GetBranchProtectionRequest(branch) ==
  [api |-> "repos.getBranchProtection", branch |-> branch]

\* the provider's side of repos.getBranch
BranchFound(bs, branch) == \E i \in 1..Len(bs) : BranchName(bs[i]) = branch

\* faulty variant: every failure that carries a status counts as absence
BranchAbsentOnAnyStatus(e) == "status" \in DOMAIN e

\* `error?.status === 404` of checkBranchExists
BranchAbsent(e) == "status" \in DOMAIN e /\ e.status = 404

\* `error?.status === 404` of getBranchProtection
ProtectionAbsent(e) == "status" \in DOMAIN e /\ e.status = 404

CheckBranchExists ==
  /\ pc = "idle"
  /\ \E branch \in BranchNames :
       /\ fn' = "checkBranchExists"
       /\ args' = [branch |-> branch]
       /\ Await(GetBranchRequest(branch))
  /\ UNCHANGED <<provider, history, caller, parked, page, perPage, acc, responses,
                 result, error, logs>>

\* the request succeeded: `return true`
CheckBranchExistsFound ==
  /\ pc = "await"
  /\ fn = "checkBranchExists"
  /\ stub \/ BranchFound(branches, LastRequest.branch)
  /\ responses' = Append(responses, [ok |-> TRUE, data |-> [name |-> LastRequest.branch]])
  /\ pc' = "done"
  /\ result' = TRUE
  /\ UNCHANGED <<provider, history, caller, parked, fn, args, page, perPage, acc,
                 requests, error, logs>>

\* the request failed: the catch clause
CheckBranchExistsCaught ==
  /\ pc = "await"
  /\ fn = "checkBranchExists"
  /\ \E e \in LookupErrors :
       /\ stub \/ e # [status |-> 404] \/ ~BranchFound(branches, LastRequest.branch)
       /\ responses' = Append(responses, [ok |-> FALSE, error |-> e])
       /\ IF BranchAbsent(e)
            THEN /\ pc' = "done"
                 /\ result' = FALSE
                 /\ UNCHANGED error
            ELSE /\ pc' = "rejected"
                 /\ error' = e
                 /\ UNCHANGED result
  /\ UNCHANGED <<provider, history, caller, parked, fn, args, page, perPage, acc,
                 requests, logs>>

GetBranchProtection ==
  /\ pc = "idle"
  /\ \E branch \in BranchNames :
       /\ fn' = "getBranchProtection"
       /\ args' = [branch |-> branch]
       /\ Await(GetBranchProtectionRequest(branch))
  /\ UNCHANGED <<provider, history, caller, parked, page, perPage, acc, responses,
                 result, error, logs>>

\* the request succeeded: `return data`
GetBranchProtectionFound ==
  /\ pc = "await"
  /\ fn = "getBranchProtection"
  /\ stub \/ BranchFound(branches, LastRequest.branch)
  /\ \E data \in Protections :
       /\ responses' = Append(responses, [ok |-> TRUE, data |-> data])
       /\ result' = data
  /\ pc' = "done"
  /\ UNCHANGED <<provider, history, caller, parked, fn, args, page, perPage, acc,
                 requests, error, logs>>

\* the request failed (a branch without protection rules answers 404): the
\* catch clause
GetBranchProtectionCaught ==
  /\ pc = "await"
  /\ fn = "getBranchProtection"
  /\ \E e \in LookupErrors :
       /\ responses' = Append(responses, [ok |-> FALSE, error |-> e])
       /\ IF ProtectionAbsent(e)
            THEN /\ pc' = "done"
                 /\ result' = Null
                 /\ UNCHANGED error
            ELSE /\ pc' = "rejected"
                 /\ error' = e
                 /\ UNCHANGED result
  /\ UNCHANGED <<provider, history, caller, parked, fn, args, page, perPage, acc,
                 requests, logs>>

-----------------------------------------------------------------------------
(* checkLabelConflicts, through findOpenPRsWithLabel and findPRsWithLabels *)

ConflictLabels == {"A", "C"}

\* the options findOpenPRsWithLabel hands to findPRsWithLabels
OpenPRsWithLabel(label, excludePRs, limit) ==
  [labels |-> <<label>>, excludePRs |-> excludePRs, limit |-> limit]

\* faulty variant: no conflict is ever reported
ConflictNever(conflictingPRs) == [hasConflict |-> FALSE]

\* what checkLabelConflicts makes of the list it awaited
ConflictResult(conflictingPRs) ==
  IF Len(conflictingPRs) > 0
    THEN [hasConflict |-> TRUE, conflictingPR |-> conflictingPRs[1]]
    ELSE [hasConflict |-> FALSE]

\* the call, down to the first request of findPRsWithLabels
CheckLabelConflicts ==
  /\ pc = "idle"
  /\ \E prNumber \in PullNumbers, label \in ConflictLabels :
       LET a == OpenPRsWithLabel(label, <<prNumber>>, 1)
       IN  /\ caller' = [fn |-> "checkLabelConflicts",
                         args |-> [prNumber |-> prNumber, label |-> label]]
           /\ ~LabelsMissing(a.labels)
           /\ Start("findPRsWithLabels", a, LabelsPerPage(a.limit), "pulls.list")
           /\ logs' = <<SearchingLog(a.labels)>>
  /\ UNCHANGED <<provider, history, parked, responses, error>>

\* findPRsWithLabels has settled: the continuation of checkLabelConflicts
CheckLabelConflictsResume ==
  /\ caller # NoCaller
  /\ caller.fn = "checkLabelConflicts"
  /\ fn = "findPRsWithLabels"
  /\ pc \in {"done", "rejected"}
  /\ fn' = "checkLabelConflicts"
  /\ args' = caller.args
  /\ caller' = NoCaller
  /\ result' = IF pc = "done" THEN ConflictResult(result) ELSE result
  /\ UNCHANGED <<provider, history, parked, pc, page, perPage, acc, requests,
                 responses, error, logs>>

-----------------------------------------------------------------------------
(* pullRequestHasLabels, through getPullRequest *)

HasLabelSets == LabelSets \cup {<<"C", "B">>}

GettingLog(pullNumber) == [msg |-> "Getting pull request", pullNumber |-> pullNumber]

GetPullRequest(pullNumber) == [api |-> "pulls.get", pull_number |-> pullNumber]

\* labels.some((label) => prLabels.includes(label))
SomeLabel(labels, prLabels) ==
  \E i \in 1..Len(labels) : ArrayIncludes(prLabels, labels[i])

\* faulty variant: requireAll is not looked at
HasLabelsAlwaysAll(labels, prLabels, requireAll) == EveryLabelIncluded(labels, prLabels)

\* the `if (requireAll)` statement
HasLabelsResult(labels, prLabels, requireAll) ==
  IF requireAll THEN EveryLabelIncluded(labels, prLabels)
                ELSE SomeLabel(labels, prLabels)

PullRequestHasLabels ==
  /\ pc = "idle"
  /\ \E pullNumber \in PullNumbers, labels \in HasLabelSets, requireAll \in BOOLEAN :
       /\ fn' = "pullRequestHasLabels"
       /\ args' = [pullNumber |-> pullNumber, labels |-> labels,
                   requireAll |-> requireAll]
       /\ logs' = <<GettingLog(pullNumber)>>
       /\ Await(GetPullRequest(pullNumber))
  /\ UNCHANGED <<provider, history, caller, parked, page, perPage, acc, responses,
                 result, error>>

\* resumption with the pull request
PullRequestHasLabelsResume ==
  /\ pc = "await"
  /\ fn = "pullRequestHasLabels"
  /\ \E i \in 1..Len(pulls) :
       /\ stub \/ pulls[i].number = LastRequest.pull_number
       /\ LET pr == pulls[i]
              prLabels == PrLabels(pr)
          IN  /\ responses' = Append(responses, [ok |-> TRUE, data |-> pr])
              /\ result' = HasLabelsResult(args.labels, prLabels, args.requireAll)
  /\ pc' = "done"
  /\ UNCHANGED <<provider, history, caller, parked, fn, args, page, perPage, acc,
                 requests, error, logs>>

-----------------------------------------------------------------------------
(* addLabelsToPullRequest *)

NoLabelsToAddLog == [msg |-> "No labels to add"]
AddingLog(pullNumber, labels) ==
  [msg |-> "Adding labels to PR", pullNumber |-> pullNumber, labels |-> labels]

AddLabelsRequest(pullNumber, labels) ==
  [api |-> "issues.addLabels", issue_number |-> pullNumber, labels |-> labels]

\* faulty variant: the empty list is not told apart
AlwaysLabelsToAdd(labels) == FALSE

\* `if (labels.length === 0)`
NoLabelsToAdd(labels) == Len(labels) = 0

\* the provider's side of issues.addLabels: the labels the pull request lacks
\* are put after those it has
WithLabels(ps, number, names) ==
  [i \in DOMAIN ps |->
     IF ps[i].number = number
       THEN LET lacking == SelectSeq(names,
                                     LAMBDA n : ~ArrayIncludes(PrLabels(ps[i]), n))
            IN  [ps[i] EXCEPT !.labels =
                   @ \o [j \in 1..Len(lacking) |-> [name |-> lacking[j]]]]
       ELSE ps[i]]

AddLabelsToPullRequest ==
  /\ pc = "idle"
  /\ \E pullNumber \in PullNumbers, labels \in HasLabelSets :
       /\ fn' = "addLabelsToPullRequest"
       /\ args' = [pullNumber |-> pullNumber, labels |-> labels]
       /\ IF NoLabelsToAdd(labels)
            THEN /\ logs' = <<NoLabelsToAddLog>>
                 /\ pc' = "done"
                 /\ result' = Undefined
                 /\ UNCHANGED requests
            ELSE /\ logs' = <<AddingLog(pullNumber, labels)>>
                 /\ Await(AddLabelsRequest(pullNumber, labels))
                 /\ UNCHANGED result
  /\ UNCHANGED <<provider, history, caller, parked, page, perPage, acc, responses, error>>

\* the provider added the labels
AddLabelsAdded ==
  /\ pc = "await"
  /\ fn = "addLabelsToPullRequest"
  /\ stub \/ \E i \in 1..Len(pulls) : pulls[i].number = LastRequest.issue_number
  /\ pulls' = WithLabels(pulls, LastRequest.issue_number, LastRequest.labels)
  /\ responses' = Append(responses, [ok |-> TRUE, data |-> <<>>])
  /\ pc' = "done"
  /\ result' = Undefined
  /\ UNCHANGED <<branches, deployments, comments, stub, history, caller, parked,
                 fn, args, page, perPage, acc, requests, error, logs>>

-----------------------------------------------------------------------------
(* deleteStickyComment, through findCommentByIdentifier and deleteComment *)

DeleteCommentRequest(commentId) ==
  [api |-> "issues.deleteComment", comment_id |-> commentId]

DeletingLog(commentId) == [msg |-> "Deleting comment ID", id |-> commentId]
StickyNotFoundLog(identifier) ==
  [msg |-> "Sticky comment with identifier not found", identifier |-> identifier]

\* faulty variant: the last comment listed is taken for the sticky one
FoundLast(cs, marker) == Len(cs)

\* the comment deleteStickyComment looks up: findCommentByIdentifier
ExistingComment(cs, marker) == FindByMarker(cs, marker)

\* the provider's side of issues.deleteComment
WithoutComment(cs, id) == SelectSeq(cs, LAMBDA c : c.id # id)

\* a call starts when the previous call of the session has settled
DeleteStickyComment ==
  /\ pc \in {"idle", "done", "rejected"}
  /\ Len(history) < MaxCalls
  /\ \E identifier \in Identifiers :
       LET a == [identifier |-> identifier]
       IN  /\ fn' = "deleteStickyComment"
           /\ args' = a
           /\ history' = Append(history, [fn |-> "deleteStickyComment", args |-> a])
  /\ pc' = "await"
  /\ requests' = <<ListCommentsRequest>>
  /\ logs' = <<>>
  /\ responses' = <<>>
  /\ result' = <<>>
  /\ error' = NoError
  /\ UNCHANGED <<provider, page, perPage, acc, caller, parked>>

\* resumption with the comments listed by findCommentByIdentifier
DeleteStickyCommentFind ==
  /\ pc = "await"
  /\ fn = "deleteStickyComment"
  /\ LastRequest.api = "issues.listComments"
  /\ LET listed == ProviderData(comments, 1, LastRequest.per_page)
         found == ExistingComment(listed, IdentifierMarker(args.identifier))
     IN  /\ responses' = Append(responses, [ok |-> TRUE, data |-> listed])
         /\ IF found # 0
              THEN /\ logs' = Append(logs, DeletingLog(listed[found].id))
                   /\ Await(DeleteCommentRequest(listed[found].id))
                   /\ UNCHANGED result
              ELSE /\ logs' = Append(logs, StickyNotFoundLog(args.identifier))
                   /\ pc' = "done"
                   /\ result' = FALSE
                   /\ UNCHANGED requests
  /\ UNCHANGED <<provider, history, caller, parked, fn, args, page, perPage, acc, error>>

\* resumption after the deletion: `return true`
DeleteStickyCommentDeleted ==
  /\ pc = "await"
  /\ fn = "deleteStickyComment"
  /\ LastRequest.api = "issues.deleteComment"
  /\ \E i \in 1..Len(comments) : comments[i].id = LastRequest.comment_id
  /\ comments' = WithoutComment(comments, LastRequest.comment_id)
  /\ responses' = Append(responses, [ok |-> TRUE, data |-> <<>>])
  /\ pc' = "done"
  /\ result' = TRUE
  /\ UNCHANGED <<pulls, branches, deployments, stub, history, caller, parked,
                 fn, args, page, perPage, acc, requests, error, logs>>

-----------------------------------------------------------------------------
(* A request fails: none of the functions above catches it *)

Listers == {"listAllBranches", "listDeployments", "findPRsWithLabels",
            "searchPullRequests", "findPullRequestsByLabels", "searchComments"}

Uncaught == Listers \cup {"createStickyComment", "deleteDeployment",
                         "pullRequestHasLabels", "addLabelsToPullRequest",
                         "deleteStickyComment"}

RequestFails ==
  /\ pc = "await"
  /\ fn \in Uncaught
  /\ \E e \in RequestErrors :
       /\ responses' = Append(responses, [ok |-> FALSE, error |-> e])
       /\ Propagate(e)
  /\ UNCHANGED <<provider, history, caller, parked, fn, args, perPage>>

-----------------------------------------------------------------------------
(* The provider's content *)

PRKinds ==
  { [labels |-> <<[name |-> "A"], [name |-> "B"]>>, user |-> [login |-> "alice"]],
    [labels |-> <<[name |-> "A"]>>, user |-> Null],
    [labels |-> <<[name |-> "B"]>>, user |-> [login |-> "alice"]],
    [labels |-> <<[name |-> "B"], [name |-> "C"], [name |-> "A"]>>,
     user |-> [login |-> "bob"]] }

\* pull request numbers are the positions in the listing
MkPulls(f) ==
  [i \in DOMAIN f |-> [number |-> i, labels |-> f[i].labels, user |-> f[i].user]]

PullStores == UNION {{MkPulls(f) : f \in [1..n -> PRKinds]} : n \in 0..MaxPRs}

\* branches and deployments are opaque: n of them, told apart by name / id
StoreCounts == {1, 3, 37, 100, 237, 300}
MkBranches(n) == [i \in 1..n |-> [name |-> i]]
MkDeployments(n) == [i \in 1..n |-> [id |-> i]]

CommentKinds ==
  { [body |-> <<"F", "i", "x">>, user |-> [login |-> "alice"]],
    [body |-> <<"f", "i", "x">>, user |-> [login |-> "bob"]],
    [body |-> <<"o", "k">>, user |-> Null] }

\* comments are listed in creation order
MkComments(f) ==
  [i \in DOMAIN f |-> [id |-> i, body |-> f[i].body, user |-> f[i].user,
                       created_at |-> i]]

CommentStores == UNION {{MkComments(f) : f \in [1..n -> CommentKinds]} : n \in 0..MaxComments}

InitCall ==
  /\ fn = "none"
  /\ args = [none |-> TRUE]
  /\ pc = "idle"
  /\ page = 1
  /\ perPage = 0
  /\ acc = <<>>
  /\ requests = <<>>
  /\ responses = <<>>
  /\ result = <<>>
  /\ error = NoError
  /\ logs = <<>>
  /\ history = <<>>
  /\ caller = NoCaller
  /\ parked = IdleFrame

Init ==
  /\ stub \in BOOLEAN
  /\ \/ /\ pulls \in PullStores
        /\ branches = <<>> /\ deployments = <<>> /\ comments = <<>>
     \/ /\ branches \in {MkBranches(n) : n \in StoreCounts}
        /\ pulls = <<>> /\ deployments = <<>> /\ comments = <<>>
     \/ /\ deployments \in {MkDeployments(n) : n \in StoreCounts}
        /\ pulls = <<>> /\ branches = <<>> /\ comments = <<>>
     \/ /\ comments \in CommentStores
        /\ pulls = <<>> /\ branches = <<>> /\ deployments = <<>>
  /\ InitCall

Next ==
  \/ ListAllBranches
  \/ ListAllBranchesResume
  \/ ListDeployments
  \/ ListDeploymentsResume
  \/ FindPRsWithLabels
  \/ FindPRsWithLabelsResume
  \/ SearchPullRequests
  \/ SearchPullRequestsResume
  \/ FindPullRequestsByLabels
  \/ FindPullRequestsByLabelsResume
  \/ SearchComments
  \/ SearchCommentsResume
  \/ RemoveLabelsFromPullRequest
  \/ RemoveLabelsRemoved
  \/ RemoveLabelsCaught
  \/ DeleteDeployment
  \/ DeleteDeploymentInactive
  \/ DeleteDeploymentDeleted
  \/ CheckBranchExists
  \/ CheckBranchExistsFound
  \/ CheckBranchExistsCaught
  \/ GetBranchProtection
  \/ GetBranchProtectionFound
  \/ GetBranchProtectionCaught
  \/ CheckLabelConflicts
  \/ CheckLabelConflictsResume
  \/ RequestFails

Spec == Init /\ [][Next]_vars

-----------------------------------------------------------------------------
(* A session of sequential createStickyComment calls on one issue that      *)
(* already holds other comments.                                            *)

OtherCounts == {0, 1, 99, 100}

OtherComments(n) ==
  [i \in 1..n |-> [id |-> i, body |-> <<"o", "k">>, user |-> [login |-> "bob"],
                   created_at |-> i]]

\* the sticky comment an earlier run may have left after the other comments
EarlierSticky(cs) == NewComment(cs, FullBody(<<"a">>, <<"x">>))

InitSticky ==
  /\ stub = FALSE
  /\ comments \in {OtherComments(n) : n \in OtherCounts}
                 \cup {Append(OtherComments(n), EarlierSticky(OtherComments(n)))
                         : n \in OtherCounts}
  /\ pulls = <<>> /\ branches = <<>> /\ deployments = <<>>
  /\ InitCall

NextSticky ==
  \/ CreateStickyComment
  \/ CreateStickyCommentFind
  \/ CreateStickyCommentUpdated
  \/ CreateStickyCommentCreated
  \/ DeleteStickyComment
  \/ DeleteStickyCommentFind
  \/ DeleteStickyCommentDeleted
  \/ RequestFails

SpecSticky == InitSticky /\ [][NextSticky]_vars

-----------------------------------------------------------------------------
(* A process with two calls of the collectors.  Each call has its own       *)
(* frame: the locals are declared inside the async function.  One call      *)
(* runs at a time; at an await, or once the running call has settled, the   *)
(* event loop may resume the other one.  The second call can start while    *)
(* the first is suspended (interleaved calls) or after it has settled       *)
(* (sequential calls).                                                      *)

\* the frame of the running call
Frame ==
  [fn |-> fn, args |-> args, pc |-> pc, page |-> page, perPage |-> perPage,
   acc |-> acc, requests |-> requests, responses |-> responses, result |-> result,
   error |-> error, logs |-> logs]

\* faulty variant: one accumulator, declared outside the function, for all calls
RestoreSharingAcc(f) ==
  /\ fn' = f.fn
  /\ args' = f.args
  /\ pc' = f.pc
  /\ page' = f.page
  /\ perPage' = f.perPage
  /\ acc' = acc
  /\ requests' = f.requests
  /\ responses' = f.responses
  /\ result' = f.result
  /\ error' = f.error
  /\ logs' = f.logs

\* the call of frame f becomes the running one
Restore(f) ==
  /\ fn' = f.fn
  /\ args' = f.args
  /\ pc' = f.pc
  /\ page' = f.page
  /\ perPage' = f.perPage
  /\ acc' = f.acc
  /\ requests' = f.requests
  /\ responses' = f.responses
  /\ result' = f.result
  /\ error' = f.error
  /\ logs' = f.logs

\* the running call is suspended at its await or has settled; the other call
\* starts or goes on
Switch ==
  /\ pc # "idle"
  /\ parked.pc \in {"idle", "await"}
  /\ parked' = Frame
  /\ Restore(parked)
  /\ UNCHANGED <<provider, history, caller>>

\* listings of the process: pull requests without label A, then one with A and B
ProcessPulls ==
  {MkPulls([i \in 1..n |->
              IF i = n
                THEN [labels |-> <<[name |-> "A"], [name |-> "B"]>>,
                      user |-> [login |-> "alice"]]
                ELSE [labels |-> <<[name |-> "B"]>>, user |-> [login |-> "alice"]]])
     : n \in 0..MaxPRs}

InitProcess ==
  /\ stub = FALSE
  /\ comments = <<>>
  /\ \/ /\ pulls \in ProcessPulls
        /\ branches = <<>> /\ deployments = <<>>
     \/ /\ branches \in {MkBranches(n) : n \in StoreCounts}
        /\ pulls = <<>> /\ deployments = <<>>
     \/ /\ deployments \in {MkDeployments(n) : n \in StoreCounts}
        /\ pulls = <<>> /\ branches = <<>>
  /\ InitCall

NextProcess ==
  \/ ListAllBranches
  \/ ListAllBranchesResume
  \/ ListDeployments
  \/ ListDeploymentsResume
  \/ FindPRsWithLabels
  \/ FindPRsWithLabelsResume
  \/ RequestFails
  \/ Switch

SpecProcess == InitProcess /\ [][NextProcess]_vars

-----------------------------------------------------------------------------
(* The label helpers of one pull request: one call per behaviour *)

InitPullLabels ==
  /\ stub \in BOOLEAN
  /\ pulls \in PullStores
  /\ branches = <<>> /\ deployments = <<>> /\ comments = <<>>
  /\ InitCall

NextPullLabels ==
  \/ PullRequestHasLabels
  \/ PullRequestHasLabelsResume
  \/ AddLabelsToPullRequest
  \/ AddLabelsAdded
  \/ RemoveLabelsFromPullRequest
  \/ RemoveLabelsRemoved
  \/ RemoveLabelsCaught
  \/ RequestFails

SpecPullLabels == InitPullLabels /\ [][NextPullLabels]_vars

-----------------------------------------------------------------------------
(* A process with two frames calling createStickyComment on one issue: the  *)
(* calls of the two frames run interleaved at their awaits.                 *)

NextStickyRace ==
  \/ CreateStickyComment
  \/ CreateStickyCommentFind
  \/ CreateStickyCommentUpdated
  \/ CreateStickyCommentCreated
  \/ RequestFails
  \/ Switch

SpecStickyRace == InitSticky /\ [][NextStickyRace]_vars

-----------------------------------------------------------------------------
(* truncateText: a synchronous function of a text and a length *)

Characters == {"a", "b"}
Texts == UNION {[1..n -> Characters] : n \in 0..MaxText}
MaxLengths == 0..(MaxText + 1)

Ellipsis == <<".", ".", ".">>

TruncateText(text, maxLength) ==
  IF Len(text) <= maxLength
    THEN text
    ELSE SliceFromStart(text, maxLength - 3) \o Ellipsis

CallTruncateText ==
  /\ pc = "idle"
  /\ \E text \in Texts, maxLength \in MaxLengths :
       /\ fn' = "truncateText"
       /\ args' = [text |-> text, maxLength |-> maxLength]
       /\ result' = TruncateText(text, maxLength)
  /\ pc' = "done"
  /\ UNCHANGED <<provider, history, caller, parked, page, perPage, acc, requests,
                 responses, error, logs>>

InitText ==
  /\ stub = FALSE
  /\ pulls = <<>> /\ branches = <<>> /\ deployments = <<>> /\ comments = <<>>
  /\ InitCall

NextText == CallTruncateText

SpecText == InitText /\ [][NextText]_vars

-----------------------------------------------------------------------------
(* Vocabulary of the properties, stated over the provider's content and the *)
(* history of requests and responses, not over the functions' filters.      *)

Paginated == {"listAllBranches", "listDeployments", "findPRsWithLabels",
              "searchPullRequests"}
Filtered == {"findPRsWithLabels", "searchPullRequests"}
PRFunctions == {"findPRsWithLabels", "searchPullRequests", "findPullRequestsByLabels"}

Range(s) == {s[i] : i \in DOMAIN s}

Resolved == pc = "done"

\* the listing the called function reads
Store ==
  CASE fn = "listAllBranches" -> branches
    [] fn = "listDeployments" -> deployments
    [] fn \in PRFunctions -> pulls
    [] OTHER -> comments

HasAllLabels(pr, labels) ==
  Range(labels) \subseteq {pr.labels[j].name : j \in DOMAIN pr.labels}

HasAuthor(x, author) == x.user # Null /\ x.user.login = author

CommentPasses(c, a) ==
  /\ a.hasBody => StringIncludes(ToLowerCase(c.body), ToLowerCase(a.bodyContains))
  /\ a.author # Undefined => HasAuthor(c, a.author)
  /\ a.hasAfter => c.created_at > a.createdAfter
  /\ a.hasBefore => c.created_at < a.createdBefore

\* the predicate of the called function
Passes(x) ==
  CASE fn \in {"findPRsWithLabels", "findPullRequestsByLabels"} ->
         HasAllLabels(x, args.labels) /\ x.number \notin Range(args.excludePRs)
    [] fn = "searchPullRequests" ->
         /\ HasAllLabels(x, args.labels)
         /\ x.number \notin Range(args.excludePRs)
         /\ args.author # Undefined => HasAuthor(x, args.author)
    [] fn = "searchComments" -> CommentPasses(x, args)
    [] OTHER -> TRUE

\* what the called function returns for a raw item
ItemOf(x) == IF fn = "listAllBranches" THEN x.name ELSE x

PassingOf(data) ==
  LET passing == SelectSeq(data, Passes)
  IN  [i \in 1..Len(passing) |-> ItemOf(passing[i])]

\* the passing items of the first k responses, in request order
RECURSIVE Collected(_)
Collected(k) ==
  IF k = 0 THEN <<>> ELSE Collected(k - 1) \o PassingOf(responses[k].data)

FirstN(s, n) == SubSeq(s, 1, IF n < Len(s) THEN n ELSE Len(s))

-----------------------------------------------------------------------------
(* C1: whatever the limit >= 0 and whatever pages the provider answers      *)
(* (pages longer than per_page included), a list-returning call resolves    *)
(* with at most `limit` items.                                              *)
C1_LengthWithinLimit ==
  (Resolved /\ fn \in Listers) => Len(result) <= args.limit

\* a call that received a page longer than it asked for and was cut to the limit
C1_Witness ==
  /\ Resolved
  /\ fn \in Listers
  /\ args.limit > 0
  /\ Len(responses) >= 1
  /\ Len(responses[1].data) > requests[1].per_page
  /\ Len(PassingOf(responses[1].data)) > args.limit
  /\ Len(result) = args.limit

(* C2: in a paginated collector, once a response is empty or shorter than   *)
(* per_page, the call returns and issues no further request: a short first  *)
(* page means exactly 1 request, a full page then an empty page exactly 2.  *)
C2_StopOnShortPage ==
  fn \in Paginated =>
    \A k \in 1..Len(responses) :
      (responses[k].ok /\ Len(responses[k].data) < perPage) =>
        (Resolved /\ Len(requests) = k)

\* a full page followed by an empty page: two requests
C2_Witness ==
  /\ fn \in Paginated
  /\ Resolved
  /\ Len(responses) = 2
  /\ Len(responses[1].data) = perPage
  /\ responses[2].data = <<>>
  /\ Len(requests) = 2
  /\ args.limit > Len(responses[1].data)

(* C3: against the real provider holding T passing items, T < limit, a      *)
(* paginated collector returns exactly those T items, after                 *)
(* floor(N / per_page) + 1 requests, N being the raw length of the listing: *)
(* every full page, then the first short or empty one.                      *)
C3_ReturnsAllWhenFewer ==
  (Resolved /\ fn \in Paginated /\ ~stub /\ Len(PassingOf(Store)) < args.limit) =>
    /\ result = PassingOf(Store)
    /\ Len(requests) = (Len(Store) \div perPage) + 1

\* raw pages of 100, 100 and 37 with limit 250: three requests, 237 items
C3_Witness ==
  /\ Resolved
  /\ fn = "listAllBranches"
  /\ ~stub
  /\ args.limit = 250
  /\ Len(branches) = 237
  /\ Len(requests) = 3
  /\ Len(result) = 237

(* C4: a call resolves with the first min(limit, n) elements of C, the      *)
(* concatenation in request order of the passing items of each fetched page *)
(* (n = Len(C)): nothing is reordered, duplicated or dropped before the cut.*)
C4_ResultIsPrefixOfCollected ==
  (Resolved /\ fn \in Listers) =>
    result = FirstN(Collected(Len(responses)), args.limit)

\* two pages, items of the first one rejected by the predicate, and a cut
C4_Witness ==
  /\ Resolved
  /\ fn \in Filtered
  /\ ~stub
  /\ Len(responses) = 2
  /\ Len(PassingOf(responses[1].data)) < Len(responses[1].data)
  /\ Len(Collected(2)) > args.limit
  /\ Len(result) = args.limit

(* C5, as stated: every page request of a paginated collector carries       *)
(* per_page = min(limit, 100).                                              *)
C5_PerPageIsMinLimit100 ==
  fn \in Paginated =>
    \A k \in 1..Len(requests) : requests[k].per_page = Min(args.limit, 100)

(* C5, amended: every page request of one call carries the same per_page,   *)
(* which is min(limit, 100) in listAllBranches and listDeployments and      *)
(* min(2 * limit, 100) in findPRsWithLabels and searchPullRequests; it is   *)
(* not recomputed from the number of items still needed.                    *)
C5_PerPageFixedPerCall ==
  fn \in Paginated =>
    \A k \in 1..Len(requests) :
      requests[k].per_page =
        IF fn \in Filtered THEN Min(2 * args.limit, 100) ELSE Min(args.limit, 100)

\* a second round, requested with the page size of the first although fewer
\* items are still needed
C5_Witness ==
  /\ fn \in Paginated
  /\ pc = "await"
  /\ Len(requests) >= 2
  /\ acc # <<>>
  /\ args.limit - Len(acc) < LastRequest.per_page
  /\ LastRequest.per_page = requests[1].per_page

(* C6: in findPRsWithLabels and searchPullRequests, a response of exactly   *)
(* per_page raw items none of which passes the predicate, received while    *)
(* the accumulator is below the limit, is followed at once by the request   *)
(* of page + 1.                                                             *)
C6_FullPageNoMatchContinues ==
  [][ ( /\ fn \in Filtered
        /\ pc = "await"
        /\ Len(acc) < args.limit
        /\ Len(responses') = Len(responses) + 1
        /\ responses'[Len(responses')].ok
        /\ Len(responses'[Len(responses')].data) = perPage
        /\ PassingOf(responses'[Len(responses')].data) = <<>> )
      => ( /\ pc' = "await"
           /\ requests' = Append(requests, [api |-> "pulls.list",
                                            per_page |-> perPage,
                                            page |-> page + 1]) ) ]_vars

\* the request that follows a full page without a passing item
C6_Witness ==
  /\ fn \in Filtered
  /\ ~stub
  /\ pc = "await"
  /\ Len(responses) >= 1
  /\ Len(responses[Len(responses)].data) = perPage
  /\ PassingOf(responses[Len(responses)].data) = <<>>
  /\ Len(requests) = Len(responses) + 1
  /\ LastRequest.page = Len(requests)

(* C7: when the request of round k fails, the call rejects with the error   *)
(* of that request, round k is not retried, no request of round k + 1 is    *)
(* issued, and nothing of what rounds 1..k-1 accumulated is returned.       *)
C7_FailurePropagates ==
  fn \in Paginated =>
    \A k \in 1..Len(responses) :
      ~responses[k].ok =>
        /\ pc = "rejected"
        /\ error = responses[k].error
        /\ Len(requests) = k
        /\ \A i \in 1..(k - 1) : requests[i].page # requests[k].page
        /\ result = <<>>

\* a failure in a later round, with items already accumulated
C7_Witness ==
  /\ fn \in Paginated
  /\ pc = "rejected"
  /\ Len(responses) >= 2
  /\ ~responses[Len(responses)].ok
  /\ acc # <<>>

(* C8: findPRsWithLabels and findPullRequestsByLabels called with an empty  *)
(* label list reject with 'At least one label must be specified' and issue  *)
(* no request.                                                              *)
C8_EmptyLabelsRejected ==
  (fn \in {"findPRsWithLabels", "findPullRequestsByLabels"} /\ args.labels = <<>>) =>
    /\ pc = "rejected"
    /\ error = [message |-> "At least one label must be specified"]
    /\ requests = <<>>

\* the rejected call, on a repository that has pull requests
C8_Witness ==
  /\ fn = "findPullRequestsByLabels"
  /\ args.labels = <<>>
  /\ pulls # <<>>
  /\ pc = "rejected"

(* C9: every pull request returned by findPRsWithLabels, searchPullRequests *)
(* or findPullRequestsByLabels carries every requested label, has a number  *)
(* outside excludePRs and, in searchPullRequests with an author, has that   *)
(* author.                                                                  *)
C9_ReturnedPRsPass ==
  (Resolved /\ fn \in PRFunctions) =>
    \A i \in 1..Len(result) :
      /\ HasAllLabels(result[i], args.labels)
      /\ result[i].number \notin Range(args.excludePRs)
      /\ (fn = "searchPullRequests" /\ args.author # Undefined)
           => HasAuthor(result[i], args.author)

\* a search by labels, author and exclusion over a page that holds a pull
\* request with only some of the labels and an excluded one with all of them
C9_Witness ==
  /\ Resolved
  /\ fn = "searchPullRequests"
  /\ args.labels = <<"A", "B">>
  /\ args.author = "alice"
  /\ args.excludePRs = <<1>>
  /\ result # <<>>
  /\ \E pr \in Range(responses[1].data) :
       HasAllLabels(pr, <<"A">>) /\ ~HasAllLabels(pr, args.labels)
  /\ \E pr \in Range(responses[1].data) :
       HasAllLabels(pr, args.labels) /\ pr.number = 1

(* C10: after any sequence of sequential createStickyComment calls with     *)
(* updateIfExists = true on one issue, whatever the number of other         *)
(* comments of the issue, at most one comment of the issue contains the     *)
(* marker of a given identifier.                                            *)
Settled == pc \in {"idle", "done", "rejected"}

OnlyUpdatingCalls ==
  \A k \in 1..Len(history) :
    history[k].fn = "createStickyComment" /\ history[k].args.updateIfExists

StickyCount(identifier) ==
  Cardinality({i \in 1..Len(comments) :
                 StringIncludes(comments[i].body, IdentifierMarker(identifier))})

C10_AtMostOneSticky ==
  (Settled /\ OnlyUpdatingCalls) =>
    \A identifier \in Identifiers : StickyCount(identifier) <= 1

(* C11: in removeLabelsFromPullRequest the requests are one removal per     *)
(* label in list order, and a 404 answer to the removal of label k is a     *)
(* no-op for that label: the removal of label k + 1 is requested at once    *)
(* (the call resolves when k is the last label), and the call rejects only  *)
(* by a later failure whose status is not 404.                              *)
RemovalNotFoundAt(k) ==
  ~responses[k].ok /\ responses[k].error = [status |-> 404]

C11_AbsentLabelIsNoOp ==
  fn = "removeLabelsFromPullRequest" =>
    /\ Len(requests) <= Len(args.labels)
    /\ \A j \in 1..Len(requests) :
         requests[j] = [api |-> "issues.removeLabel",
                        issue_number |-> args.pullNumber,
                        name |-> args.labels[j]]
    /\ \A k \in 1..Len(responses) :
         RemovalNotFoundAt(k) =>
           /\ k < Len(args.labels) => Len(requests) > k
           /\ k = Len(args.labels) => pc = "done"
           /\ pc = "rejected" =>
                /\ Len(responses) > k
                /\ ~responses[Len(responses)].ok
                /\ error = responses[Len(responses)].error
                /\ error # [status |-> 404]

\* three labels against the real provider: the first is absent, the two
\* later ones are removed
C11_Witness ==
  /\ fn = "removeLabelsFromPullRequest"
  /\ ~stub
  /\ pc = "done"
  /\ Len(args.labels) = 3
  /\ Len(responses) = 3
  /\ RemovalNotFoundAt(1)
  /\ responses[2].ok
  /\ responses[3].ok
  /\ ~HasLabel(pulls, args.pullNumber, args.labels[2])

\* two labels, the first removal accepted, the second answered 404
AcceptedThenAbsent ==
  /\ fn = "removeLabelsFromPullRequest"
  /\ Len(args.labels) = 2
  /\ Len(responses) = 2
  /\ responses[1].ok
  /\ RemovalNotFoundAt(2)

(* C12, as stated: removing two labels, the first accepted and the second   *)
(* answered 404, leaves exactly one informational log entry over the whole  *)
(* call, no error, and two removal requests.                                *)
C12_OneLogEntry ==
  AcceptedThenAbsent =>
    /\ Len(logs) = 1
    /\ pc = "done"
    /\ Len(requests) = 2

(* C12, amended: removing two labels, the first accepted and the second     *)
(* answered 404, resolves without error after two removal requests, and     *)
(* the log of the call holds two informational entries: the opening         *)
(* 'Removing labels from PR' entry and one 'was not present' entry, which   *)
(* names the second label.                                                  *)
C12_OneAbsenceEntry ==
  AcceptedThenAbsent =>
    /\ pc = "done"
    /\ error = NoError
    /\ Len(requests) = 2
    /\ logs = << [msg |-> "Removing labels from PR",
                  pullNumber |-> args.pullNumber, labels |-> args.labels],
                 [msg |-> "Label was not present on PR",
                  label |-> args.labels[2], pullNumber |-> args.pullNumber] >>

\* the case against the real provider: the pull request had the first label only
C12_Witness ==
  /\ AcceptedThenAbsent
  /\ ~stub
  /\ pc = "done"
  /\ args.labels = <<"A", "B">>
  /\ Len(logs) = 2

\* the two calls of the process
Frames == {Frame, parked}

FrameSettled(f) == f.pc \in {"done", "rejected"}

\* the provider gave the same answer to the requests the two runs have in common
AnsweredAlike(f, g) ==
  \A k \in 1..Min(Len(f.responses), Len(g.responses)) :
    f.requests[k] = g.requests[k] => f.responses[k] = g.responses[k]

AloneResult(f, a) ==
  CASE f = "listAllBranches" ->
         FirstN([i \in 1..Len(branches) |-> branches[i].name], a.limit)
    [] f = "listDeployments" -> FirstN(deployments, a.limit)
    [] f = "findPRsWithLabels" ->
         FirstN(SelectSeq(pulls, LAMBDA pr : /\ HasAllLabels(pr, a.labels)
                                            /\ pr.number \notin Range(a.excludePRs)),
                a.limit)

\* a request is in flight exactly while the call is suspended, and it is the
\* only one: request k + 1 exists only once response k is there
OneInFlight(f) ==
  Len(f.requests) = Len(f.responses) + (IF f.pc = "await" THEN 1 ELSE 0)

(* C14: in a process where two collection calls run interleaved, each call  *)
(* has at most one page request in flight (the request of page N + 1 is     *)
(* issued only after the response of page N), and each call that resolves   *)
(* returns what it returns alone.                                           *)
C14_InterleavedAsAlone ==
  \A f \in Frames :
    /\ OneInFlight(f)
    /\ (f.pc = "done" /\ f.fn \in Paginated) => f.result = AloneResult(f.fn, f.args)

\* a call that resolved after several rounds while the other call, which has
\* already received a page, is still suspended
C14_Witness ==
  /\ pc = "done"
  /\ fn \in Paginated
  /\ Len(responses) >= 2
  /\ result # <<>>
  /\ result = AloneResult(fn, args)
  /\ parked.pc = "await"
  /\ parked.fn \in Paginated
  /\ Len(parked.responses) >= 1
  /\ parked.acc # <<>>

(* C15: the requests of one call of a paginated collector ask for the      *)
(* pages 1, 2, ..., k in that order, without gap or repeat, and none asks   *)
(* for more than 100 items per page.                                        *)
C15_PagesInOrder ==
  fn \in Paginated =>
    \A k \in 1..Len(requests) :
      /\ requests[k].page = k
      /\ requests[k].per_page <= 100

\* a third round of a call whose limit is above the maximum page size
C15_Witness ==
  /\ fn \in Paginated
  /\ args.limit > 100
  /\ Len(requests) = 3
  /\ Len(responses) = 3
  /\ LastRequest.page = 3
  /\ LastRequest.per_page = 100

(* C16: a searchComments call issues one listComments request, with         *)
(* per_page = min(limit, 100) and without a page parameter, and no other    *)
(* request, whatever the issue holds and whatever passes the filters.       *)
C16_OneListCommentsRequest ==
  fn = "searchComments" =>
    requests = << [api |-> "issues.listComments",
                   per_page |-> Min(args.limit, 100)] >>

\* the issue holds a comment that passes the filters beyond the only page
\* fetched: the call resolves empty-handed after its single request
C16_Witness ==
  /\ fn = "searchComments"
  /\ Resolved
  /\ ~stub
  /\ args.limit = 1
  /\ Len(comments) > requests[1].per_page
  /\ CommentPasses(comments[2], args)
  /\ result = <<>>
  /\ Len(requests) = 1

\* the pull requests of the listing that carry every requested label
Labelled == {i \in 1..Len(pulls) : HasAllLabels(pulls[i], args.labels)}

(* C17: a findPullRequestsByLabels call with limit >= 1 against the real    *)
(* provider, whose listing holds M pull requests carrying every requested   *)
(* label, returns min(limit, M) pull requests, wherever the M sit in the    *)
(* listing.                                                                 *)
C17_FindsLabelledAnywhere ==
  (Resolved /\ fn = "findPullRequestsByLabels" /\ ~stub /\ args.limit >= 1) =>
    Len(result) = Min(args.limit, Cardinality(Labelled))

(* C18: the first request of deleteDeployment creates an 'inactive' status  *)
(* for the deployment; a delete request is the second request of the call   *)
(* and is there only once the status request has succeeded; if the status   *)
(* request fails, the call rejects with that failure and asks for no        *)
(* deletion.                                                                *)
C18_InactiveBeforeDelete ==
  fn = "deleteDeployment" =>
    /\ requests[1] = [api |-> "repos.createDeploymentStatus",
                      deployment_id |-> args.deploymentId, state |-> "inactive"]
    /\ \A k \in 1..Len(requests) :
         requests[k].api = "repos.deleteDeployment" =>
           /\ k = 2
           /\ requests[k].deployment_id = args.deploymentId
           /\ Len(responses) >= 1
           /\ responses[1].ok
    /\ (Len(responses) >= 1 /\ ~responses[1].ok) =>
         /\ pc = "rejected"
         /\ error = responses[1].error
         /\ Len(requests) = 1

\* the real provider has set the deployment inactive and then deleted it
C18_Witness ==
  /\ fn = "deleteDeployment"
  /\ ~stub
  /\ pc = "done"
  /\ Len(requests) = 2
  /\ LastRequest.api = "repos.deleteDeployment"
  /\ responses[1].ok
  /\ Len(deployments) >= 2
  /\ ~DeploymentExists(deployments, args.deploymentId)

(* C19: checkBranchExists and getBranchProtection issue one request; when   *)
(* it succeeds they return true, respectively the protection data; when it  *)
(* fails with status 404 they return false, respectively null; any other    *)
(* failure, with another status or with none, is rethrown as it is.         *)
C19_NotFoundIsAbsent ==
  (fn \in {"checkBranchExists", "getBranchProtection"}) =>
    /\ Len(requests) = 1
    /\ Len(responses) = 0 => pc = "await"
    /\ Len(responses) >= 1 =>
         /\ Len(responses) = 1
         /\ IF responses[1].ok
              THEN /\ pc = "done"
                   /\ result = IF fn = "checkBranchExists"
                                 THEN TRUE ELSE responses[1].data
            ELSE IF responses[1].error = [status |-> 404]
              THEN /\ pc = "done"
                   /\ result = IF fn = "checkBranchExists" THEN FALSE ELSE Null
              ELSE /\ pc = "rejected"
                   /\ error = responses[1].error

\* a failure with a status other than 404 is rethrown by getBranchProtection
C19_Witness ==
  /\ fn = "getBranchProtection"
  /\ ~stub
  /\ pc = "rejected"
  /\ Len(responses) = 1
  /\ error = [status |-> 403]
  /\ BranchFound(branches, args.branch)

\* the pull requests of the listing, other than prNumber, that carry the label
Conflicting ==
  {pr \in Range(pulls) : pr.number # args.prNumber /\ HasAllLabels(pr, <<args.label>>)}

(* C20: a resolved checkLabelConflicts call reports hasConflict = true      *)
(* exactly when a pull request of the listing other than prNumber carries   *)
(* the label, on whatever page it is listed; conflictingPR is then one of   *)
(* those pull requests, and is absent when hasConflict is false.            *)
C20_ConflictIffOtherLabelled ==
  (fn = "checkLabelConflicts" /\ pc = "done") =>
    /\ result.hasConflict = (Conflicting # {})
    /\ result.hasConflict => result.conflictingPR \in Conflicting
    /\ ~result.hasConflict => DOMAIN result = {"hasConflict"}

\* prNumber itself carries the label, and the only other pull request that
\* does is listed on the second page
C20_Witness ==
  /\ fn = "checkLabelConflicts"
  /\ pc = "done"
  /\ ~stub
  /\ HasLabel(pulls, args.prNumber, args.label)
  /\ result.hasConflict
  /\ result.conflictingPR.number > 2
  /\ Cardinality(Conflicting) = 1
  /\ Len(requests) = 2

\* the label names of a pull request
NamesOf(pr) == {pr.labels[j].name : j \in DOMAIN pr.labels}

(* C21: a resolved pullRequestHasLabels call returns, with requireAll,      *)
(* whether every requested label is among the labels of the pull request    *)
(* it read (true for an empty list), and without requireAll whether at      *)
(* least one is (false for an empty list).                                  *)
C21_AllOrAnyLabel ==
  (fn = "pullRequestHasLabels" /\ Resolved) =>
    /\ result = IF args.requireAll
                  THEN Range(args.labels) \subseteq NamesOf(responses[1].data)
                  ELSE Range(args.labels) \cap NamesOf(responses[1].data) # {}
    /\ args.labels = <<>> => result = args.requireAll

\* two labels asked for without requireAll, of which the pull request has one
C21_Witness ==
  /\ fn = "pullRequestHasLabels"
  /\ Resolved
  /\ ~stub
  /\ ~args.requireAll
  /\ Len(args.labels) = 2
  /\ Cardinality(Range(args.labels) \cap NamesOf(responses[1].data)) = 1
  /\ result = TRUE

(* C30: addLabelsToPullRequest and removeLabelsFromPullRequest called with  *)
(* an empty label list issue no request, leave the pull requests as they    *)
(* are and resolve without error.                                           *)
C30_EmptyListIsNoOp ==
  [][ ( /\ fn' \in {"addLabelsToPullRequest", "removeLabelsFromPullRequest"}
        /\ args'.labels = <<>> )
      => ( /\ requests' = <<>>
           /\ pulls' = pulls
           /\ pc' = "done"
           /\ error' = NoError ) ]_vars

\* the resolved addLabelsToPullRequest call, on a pull request that has labels
C30_Witness ==
  /\ fn = "addLabelsToPullRequest"
  /\ args.labels = <<>>
  /\ pc = "done"
  /\ requests = <<>>
  /\ \E i \in 1..Len(pulls) : pulls[i].number = args.pullNumber /\ pulls[i].labels # <<>>

\* the removal of label k failed with a status other than 404
RemovalFailedAt(k) ==
  ~responses[k].ok /\ responses[k].error # [status |-> 404]

(* C28: in removeLabelsFromPullRequest, when the removal of label k fails   *)
(* with a status other than 404, the call rejects with that failure, the    *)
(* request of label k is the last one of the call, and each label whose     *)
(* removal had succeeded before is off the pull request.                    *)
C28_OtherFailureStopsRemoval ==
  fn = "removeLabelsFromPullRequest" =>
    \A k \in 1..Len(responses) :
      RemovalFailedAt(k) =>
        /\ pc = "rejected"
        /\ error = responses[k].error
        /\ Len(responses) = k
        /\ Len(requests) = k
        /\ \A j \in 1..(k - 1) :
             responses[j].ok => ~HasLabel(pulls, args.pullNumber, args.labels[j])

\* the real provider removed the first label and failed on the second of three
C28_Witness ==
  /\ fn = "removeLabelsFromPullRequest"
  /\ ~stub
  /\ Len(args.labels) = 3
  /\ Len(responses) = 2
  /\ responses[1].ok
  /\ RemovalFailedAt(2)
  /\ pc = "rejected"
  /\ HasLabel(pulls, args.pullNumber, args.labels[3])

(* C24: a resolved searchComments call returns the comments of the page it  *)
(* fetched that satisfy every supplied criterion (body contains             *)
(* bodyContains whatever the case, author login equal to author, created    *)
(* strictly after createdAfter, created strictly before createdBefore), in  *)
(* listing order, cut to the first `limit`; a criterion that is not         *)
(* supplied excludes nothing.                                               *)
Satisfies(c, a) ==
  /\ a.hasBody =>
       \E i \in 1..Len(c.body) : \E j \in i..Len(c.body) :
          ToLowerCase(SubSeq(c.body, i, j)) = ToLowerCase(a.bodyContains)
  /\ a.author # Undefined => (c.user # Null /\ c.user.login = a.author)
  /\ a.hasAfter => c.created_at > a.createdAfter
  /\ a.hasBefore => c.created_at < a.createdBefore

C24_ExactlyTheSatisfying ==
  (fn = "searchComments" /\ Resolved) =>
    LET fetched == responses[1].data
        kept == {i \in 1..Len(fetched) : Satisfies(fetched[i], args)}
    IN  /\ Len(result) = Min(args.limit, Cardinality(kept))
        /\ \A n \in 1..Len(result) :
             \E i \in kept :
               /\ result[n] = fetched[i]
               /\ Cardinality({k \in kept : k < i}) = n - 1

\* body, author and createdAfter supplied, over a page with a comment that
\* satisfies the three and a comment created at createdAfter itself
C24_Witness ==
  /\ fn = "searchComments"
  /\ Resolved
  /\ args.hasBody /\ args.hasAfter /\ ~args.hasBefore /\ args.author = "alice"
  /\ args.limit >= 1
  /\ Len(responses[1].data) >= 2
  /\ \E c \in Range(responses[1].data) : c.created_at = args.createdAfter
  /\ result # <<>>

\* ceil(a / b)
CeilDiv(a, b) == (a + b - 1) \div b

(* C27: for limit >= 1 a call of listAllBranches or listDeployments issues  *)
(* at most ceil(limit / min(limit, 100)) page requests, whatever the        *)
(* provider answers, and has settled once that many have been answered.     *)
C27_BoundedRounds ==
  (fn \in {"listAllBranches", "listDeployments"} /\ args.limit >= 1) =>
    LET most == CeilDiv(args.limit, Min(args.limit, 100))
    IN  /\ Len(requests) <= most
        /\ Len(responses) = most => pc \in {"done", "rejected"}

\* a provider that answers a full page to every request: the call resolves
\* after the third page of a limit of 250
C27_Witness ==
  /\ fn \in {"listAllBranches", "listDeployments"}
  /\ stub
  /\ args.limit = 250
  /\ Len(requests) = 3
  /\ Len(responses) = 3
  /\ \A k \in 1..3 : responses[k].ok /\ Len(responses[k].data) = 100
  /\ pc = "done"
  /\ Len(result) = 250

(* C25: for every text and every maxLength >= 0, truncateText returns at    *)
(* most maxLength characters: the text itself when it has no more than      *)
(* maxLength characters, and otherwise its first maxLength - 3 characters   *)
(* followed by '...'.                                                       *)
C25_AtMostMaxLength ==
  fn = "truncateText" =>
    /\ Len(result) <= args.maxLength
    /\ Len(args.text) <= args.maxLength => result = args.text
    /\ Len(args.text) > args.maxLength =>
         /\ Len(result) = args.maxLength
         /\ \A i \in 1..(args.maxLength - 3) : result[i] = args.text[i]
         /\ \A i \in (args.maxLength - 2)..args.maxLength : result[i] = "."

\* both frames of the process are at rest
BothSettled == Settled /\ parked.pc \in {"idle", "done", "rejected"}

(* C26: once the createStickyComment calls of a process, all with           *)
(* updateIfExists = true and run interleaved in any order on an issue       *)
(* whose comments fit the page of the lookup, have completed, at most one   *)
(* comment of the issue contains the marker of a given identifier.          *)
C26_AtMostOneStickyInterleaved ==
  (BothSettled /\ OnlyUpdatingCalls /\ Len(comments) <= 100) =>
    \A identifier \in Identifiers : StickyCount(identifier) <= 1

\* the positions, in the page the lookup fetched, of the comments that
\* contain the marker of the call's identifier
Marked ==
  {i \in 1..Len(responses[1].data) :
     StringIncludes(responses[1].data[i].body,
                    <<"<!-- sticky-comment-id: ">> \o args.identifier \o <<" -->">>)}

(* C22: a resolved deleteStickyComment call returns true exactly when the   *)
(* lookup found a comment containing the marker of the identifier among     *)
(* the comments it listed; it has then issued one delete request, for the   *)
(* first such comment in listing order; otherwise it returns false and      *)
(* has issued no delete request.                                            *)
C22_DeletesFirstFound ==
  (fn = "deleteStickyComment" /\ Len(responses) >= 1 /\ responses[1].ok) =>
    /\ Resolved => result = (Marked # {})
    /\ Marked = {} => (Resolved /\ Len(requests) = 1)
    /\ Marked # {} =>
         LET first == CHOOSE i \in Marked : \A j \in Marked : i <= j
         IN  requests = << [api |-> "issues.listComments", per_page |-> 100],
                           [api |-> "issues.deleteComment",
                            comment_id |-> responses[1].data[first].id] >>

\* two comments carried the marker: the first one is deleted, the second stays
C22_Witness ==
  /\ fn = "deleteStickyComment"
  /\ Resolved
  /\ result = TRUE
  /\ Cardinality(Marked) = 2
  /\ StickyCount(args.identifier) = 1
  /\ \E i \in 1..(Len(comments) - 1) : comments[i].body = <<"o", "k">>

(* C23: a createStickyComment call with updateIfExists = false issues one   *)
(* request, a createComment whose body is the marker line followed by the   *)
(* given body, and neither a listComments nor an updateComment; when it     *)
(* resolves, the issue holds one more comment, with that body, after the    *)
(* comments it held, whether or not one of them contains the marker.        *)
C23_AlwaysCreates ==
  [][ ( /\ fn' = "createStickyComment"
        /\ ~args'.updateIfExists )
      => ( /\ requests' =
                << [api |-> "issues.createComment",
                    body |-> <<"<!-- sticky-comment-id: ">> \o args'.identifier
                               \o <<" -->", "\n">> \o args'.body] >>
           /\ (pc = "await" /\ pc' = "done") =>
                /\ Len(comments') = Len(comments) + 1
                /\ SubSeq(comments', 1, Len(comments)) = comments
                /\ comments'[Len(comments')].body = requests'[1].body ) ]_vars

\* the new comment, on an issue that already held a comment with the marker
C23_Witness ==
  /\ fn = "createStickyComment"
  /\ ~args.updateIfExists
  /\ pc = "done"
  /\ StickyCount(args.identifier) = 2
  /\ Len(requests) = 1

\* the write requests of the running call
Writes ==
  {k \in 1..Len(requests) :
     requests[k].api \in {"issues.updateComment", "issues.createComment"}}

(* C29: a createStickyComment call issues at most one write request, an     *)
(* updateComment or a createComment; an updateComment is for a comment      *)
(* whose body contains the marker of the identifier; and no step of the     *)
(* call changes any comment of the issue but the one the update is for.     *)
C29_OneWriteOneTarget ==
  [][ fn' = "createStickyComment" =>
        /\ Cardinality(Writes') <= 1
        /\ \A k \in Writes' :
             requests'[k].api = "issues.updateComment" =>
               \E c \in Range(responses'[1].data) :
                 /\ c.id = requests'[k].comment_id
                 /\ StringIncludes(c.body, <<"<!-- sticky-comment-id: ">>
                                             \o args'.identifier \o <<" -->">>)
        /\ Len(comments') >= Len(comments)
        /\ \A i \in 1..Len(comments) :
             \/ comments'[i] = comments[i]
             \/ /\ LastRequest.api = "issues.updateComment"
                /\ comments[i].id = LastRequest.comment_id ]_vars

\* an update that changed the body of the sticky comment on an issue with
\* other comments
C29_Witness ==
  /\ fn = "createStickyComment"
  /\ pc = "done"
  /\ LastRequest.api = "issues.updateComment"
  /\ Len(comments) >= 2
  /\ result.body = <<"<!-- sticky-comment-id: ", "a", " -->", "\n", "y">>
  /\ \E i \in 1..Len(comments) :
       comments[i].id = LastRequest.comment_id /\ comments[i].body = result.body
  /\ \E i \in 1..Len(comments) : comments[i].body = <<"o", "k">>

=============================================================================
